---- MODULE Spec2Model ----
(***************************************************************************)
(* A model of list_set::LinkedListSet<T> (src/src/lib.rs): a set of        *)
(* doubly-linked lists whose nodes live in one Vec<Node<T>> arena, with    *)
(* O(1) removal by swap_remove.                                            *)
(*                                                                         *)
(* Arena positions (NodeIndex) are 0-based as in the source; the arena is  *)
(* a TLA+ sequence, so the node at position i is nodes[i + 1].             *)
(***************************************************************************)
EXTENDS Integers, Sequences, FiniteSets, TLC

\* usize::MAX, the value of NodeIndex::end() and ListIndex::end(); the value
\* is the one of a 16-bit target, the narrowest usize Rust supports.
UsizeMax == 65535

\* Bounds of the model.
MaxHandles == 2     \* new_list is called at most this many times
MaxNodes == 3       \* the arena holds at most this many nodes
MaxExtend == 2      \* extend is given at most this many items
Items == {1, 2}     \* the payloads (T = a type with two values)
MaxBoundLen == 10   \* bounded_by is applied to slices of at most this length
MaxPatchNodes == 7  \* the arena of SpecPatch holds at most this many nodes

VARIABLES
    alloc,      \* LinkedListSet.alloc.current
    lists,      \* LinkedListSet.lists: ListIndex -> LinkedList record
    nodes,      \* LinkedListSet.nodes: the arena
    call,       \* the last public call and its arguments
    ret,        \* what the last public call returned
    pre,        \* the set as it was when the last public call was made
                \* (kept when track is "none" or "wrap")
    issued,     \* the handles new_list has returned, in order
    track,      \* which record of past calls is kept: "none", "order",
                \* "trip", "iter", "wrap"
    pushlog,    \* the pushes made to one list, the watched one, since it
                \* was last empty
    trip,       \* the push of a push/pop pair in progress
    cursor      \* the ListIter or ListIterMut the caller holds, if any

vars ==
    <<alloc, lists, nodes, call, ret, pre, issued, track, pushlog, trip,
      cursor>>

-----------------------------------------------------------------------------
(* Index types and records *)

NodeIndex_end == UsizeMax

ListIndex_end == UsizeMax

\* Node::new
Node_new(list_index, item) ==
    [item |-> item, list |-> list_index,
     previous |-> NodeIndex_end, next |-> NodeIndex_end]

\* LinkedList::new
LinkedList_new ==
    [front |-> NodeIndex_end, back |-> NodeIndex_end, length |-> 0]

\* LinkedList::is_empty
LinkedList_is_empty(list) ==
    list.front = NodeIndex_end /\ list.back = NodeIndex_end

\* LinkedList::len
LinkedList_len(list) == list.length

\* Return values of the public operations.
None == [kind |-> "None"]
Some(v) == [kind |-> "Some", value |-> v]
Unit == [kind |-> "unit"]

\* The set as one value: s.alloc, s.lists, s.nodes.
Set(a, l, n) == [alloc |-> a, lists |-> l, nodes |-> n]

\* LinkedListSet::new
LinkedListSet_new == Set(0, <<>>, <<>>)

\* LinkedListSet::get_node_unchecked
get_node_unchecked(s, node_index) == s.nodes[node_index + 1]

\* LinkedListSet::get_list_unchecked
get_list_unchecked(s, list_index) == s.lists[list_index]

\* LinkedListSet::contains_list
contains_list(s, list_index) == list_index \in DOMAIN s.lists

\* LinkedListSet::len
len(s, list_index) == LinkedList_len(get_list_unchecked(s, list_index))

\* LinkedListSet::list_is_empty
list_is_empty(s, list_index) ==
    LinkedList_is_empty(get_list_unchecked(s, list_index))

\* LinkedListSet::list_count
list_count(s) == Cardinality(DOMAIN s.lists)

\* LinkedListSet::node_count
node_count(s) == Len(s.nodes)

-----------------------------------------------------------------------------
(* Iteration *)

\* ListIter::next repeated until it returns None: the arena positions the
\* forward cursor visits from `current`.  The cursor of the source stops only
\* at NodeIndex::end(); `fuel` cuts a walk that would not stop, and a position
\* outside the arena (a panic in the source) ends the walk after it.
RECURSIVE walk_next(_, _, _)
walk_next(ns, current, fuel) ==
    IF current = NodeIndex_end \/ fuel = 0 THEN <<>>
    ELSE IF current >= Len(ns) THEN <<current>>
    ELSE <<current>> \o walk_next(ns, ns[current + 1].next, fuel - 1)

\* ListIter::next_back repeated until it returns None.
RECURSIVE walk_previous(_, _, _)
walk_previous(ns, current, fuel) ==
    IF current = NodeIndex_end \/ fuel = 0 THEN <<>>
    ELSE IF current >= Len(ns) THEN <<current>>
    ELSE <<current>> \o walk_previous(ns, ns[current + 1].previous, fuel - 1)

\* The payload read at an arena position; 0 stands for the panic of an index
\* out of bounds (no payload is 0).
item_at(ns, p) == IF p < Len(ns) THEN ns[p + 1].item ELSE 0

\* LinkedListSet::iter(list_index) consumed by next(): the payloads in order.
iter(s, list_index) ==
    LET w == walk_next(s.nodes, get_list_unchecked(s, list_index).front,
                       Len(s.nodes) + 1)
    IN [i \in 1..Len(w) |-> item_at(s.nodes, w[i])]

\* LinkedListSet::iter(list_index) consumed by next_back().
iter_rev(s, list_index) ==
    LET w == walk_previous(s.nodes, get_list_unchecked(s, list_index).back,
                           Len(s.nodes) + 1)
    IN [i \in 1..Len(w) |-> item_at(s.nodes, w[i])]

\* The ListIter that LinkedListSet::iter builds; `nodes` is the arena of the
\* set, borrowed for as long as the iterator lives.
ListIter(s, list_index) ==
    [current_front |-> get_list_unchecked(s, list_index).front,
     current_back |-> get_list_unchecked(s, list_index).back,
     position_front |-> 0,
     position_back |-> 0,
     list |-> get_list_unchecked(s, list_index)]

\* The ListIterMut that LinkedListSet::iter_mut builds.
ListIterMut(s, list_index) ==
    [current_front |-> get_list_unchecked(s, list_index).front,
     current_back |-> get_list_unchecked(s, list_index).back,
     position_front |-> 0,
     position_back |-> 0,
     list |-> get_list_unchecked(s, list_index)]

\* ListIter::next and ListIterMut::next on the arena ns: the iterator after
\* the call, what it returned and, in `node`, the arena position it handed
\* out a reference to.
ListIter_next(it, ns) ==
    IF it.current_front # NodeIndex_end
    THEN LET node == ns[it.current_front + 1]
         IN [it |-> [it EXCEPT !.current_front = node.next,
                               !.position_front = @ + 1],
             ret |-> Some(node.item),
             node |-> it.current_front]
    ELSE [it |-> it, ret |-> None, node |-> NodeIndex_end]

\* next_back stepping to node.next() as next does.
ListIter_next_back_follows_next(it, ns) ==
    IF it.current_back # NodeIndex_end
    THEN LET node == ns[it.current_back + 1]
         IN [it |-> [it EXCEPT !.current_back = node.next,
                               !.position_back = @ + 1],
             ret |-> Some(node.item),
             node |-> it.current_back]
    ELSE [it |-> it, ret |-> None, node |-> NodeIndex_end]

\* ListIter::next_back and ListIterMut::next_back.
ListIter_next_back(it, ns) ==
    IF it.current_back # NodeIndex_end
    THEN LET node == ns[it.current_back + 1]
         IN [it |-> [it EXCEPT !.current_back = node.previous,
                               !.position_back = @ + 1],
             ret |-> Some(node.item),
             node |-> it.current_back]
    ELSE [it |-> it, ret |-> None, node |-> NodeIndex_end]

\* bounded_by in ListIterMut::next and next_back: base_ptr.add(count) lies
\* between base_ptr and base_ptr.add(length), both included.
bounded_by(length, count) == count <= length /\ count >= 0

\* ListIter::size_hint and ListIterMut::size_hint
ListIter_size_hint(it) ==
    LET remaining == LinkedList_len(it.list) - it.position_front
    IN <<remaining, Some(remaining)>>

-----------------------------------------------------------------------------
(* List handle lifecycle *)

\* The call panicked: it returned nothing and the caller unwinds.
Panic == [kind |-> "panic"]

\* A usize, ListIndex or bool returned by a call that can panic.
Value(v) == [kind |-> "value", value |-> v]

\* new_index incrementing the counter before it reads the handle.
new_index_increments_first(current, overflow_checks) ==
    IF current = UsizeMax /\ overflow_checks
    THEN [current |-> current, ret |-> Panic]
    ELSE [current |-> (current + 1) % (UsizeMax + 1),
          ret |-> Value((current + 1) % (UsizeMax + 1))]

\* ListIndexAllocator::new_index: the counter after the call and the handle
\* returned.  `self.current += 1` overflows at usize::MAX: a build with
\* overflow checks (debug) panics there, a build without (release) wraps to 0.
new_index(current, overflow_checks) ==
    IF current = UsizeMax /\ overflow_checks
    THEN [current |-> current, ret |-> Panic]
    ELSE [current |-> (current + 1) % (UsizeMax + 1), ret |-> Value(current)]

\* LinkedListSet::new_list; HashMap::insert replaces the record of a key
\* that is in the table already.
new_list(s, overflow_checks) ==
    LET a == new_index(s.alloc, overflow_checks)
    IN IF a.ret = Panic THEN [set |-> s, ret |-> Panic]
       ELSE [set |-> [s EXCEPT
                        !.alloc = a.current,
                        !.lists = [k \in DOMAIN s.lists \cup {a.ret.value}
                                     |-> IF k = a.ret.value
                                         THEN LinkedList_new
                                         ELSE s.lists[k]]],
             ret |-> a.ret]

-----------------------------------------------------------------------------
(* Push *)

\* link_list_node without the write to previous_node.next.
link_list_node_forgets_previous(s, node_index, previous_index, next_index) ==
    LET n1 == [s.nodes EXCEPT ![node_index + 1].previous = previous_index,
                              ![node_index + 1].next = next_index]
        n2 == IF next_index # NodeIndex_end
              THEN [n1 EXCEPT ![next_index + 1].previous = node_index]
              ELSE n1
    IN [s EXCEPT !.nodes = n2]

\* LinkedListSet::link_list_node
link_list_node(s, node_index, previous_index, next_index) ==
    LET n1 == [s.nodes EXCEPT ![node_index + 1].previous = previous_index,
                              ![node_index + 1].next = next_index]
        n2 == IF next_index # NodeIndex_end
              THEN [n1 EXCEPT ![next_index + 1].previous = node_index]
              ELSE n1
        n3 == IF previous_index # NodeIndex_end
              THEN [n2 EXCEPT ![previous_index + 1].next = node_index]
              ELSE n2
    IN [s EXCEPT !.nodes = n3]

\* push_back with the arguments of link_list_node exchanged: the new node is
\* linked in front of the old back.
push_back_links_reversed(s, list_index, item) ==
    LET new_node_index == Len(s.nodes)
        s1 == [s EXCEPT !.nodes = Append(@, Node_new(list_index, item))]
        s2 == IF list_is_empty(s1, list_index)
              THEN [s1 EXCEPT !.lists[list_index].front = new_node_index,
                              !.lists[list_index].back = new_node_index]
              ELSE LET old_back == get_list_unchecked(s1, list_index).back
                       s3 == link_list_node(s1, new_node_index, NodeIndex_end,
                                            old_back)
                   IN [s3 EXCEPT !.lists[list_index].back = new_node_index]
    IN [s2 EXCEPT !.lists[list_index].length = @ + 1]

\* push_back storing the new node in the first arena slot, ahead of the
\* nodes that are there.
push_back_inserts_first(s, list_index, item) ==
    LET new_node_index == 0
        s1 == [s EXCEPT !.nodes = <<Node_new(list_index, item)>> \o @]
        s2 == IF list_is_empty(s1, list_index)
              THEN [s1 EXCEPT !.lists[list_index].front = new_node_index,
                              !.lists[list_index].back = new_node_index]
              ELSE LET back == get_list_unchecked(s1, list_index).back
                       s3 == link_list_node(s1, new_node_index, back,
                                            NodeIndex_end)
                   IN [s3 EXCEPT !.lists[list_index].back = new_node_index]
    IN [s2 EXCEPT !.lists[list_index].length = @ + 1]

\* push_back setting only back when the list is empty.
push_back_sets_back_only(s, list_index, item) ==
    LET new_node_index == Len(s.nodes)
        s1 == [s EXCEPT !.nodes = Append(@, Node_new(list_index, item))]
        s2 == IF list_is_empty(s1, list_index)
              THEN [s1 EXCEPT !.lists[list_index].back = new_node_index]
              ELSE LET back == get_list_unchecked(s1, list_index).back
                       s3 == link_list_node(s1, new_node_index, back,
                                            NodeIndex_end)
                   IN [s3 EXCEPT !.lists[list_index].back = new_node_index]
    IN [s2 EXCEPT !.lists[list_index].length = @ + 1]

\* LinkedListSet::push_back
push_back(s, list_index, item) ==
    LET new_node_index == Len(s.nodes)
        s1 == [s EXCEPT !.nodes = Append(@, Node_new(list_index, item))]
        s2 == IF list_is_empty(s1, list_index)
              THEN [s1 EXCEPT !.lists[list_index].front = new_node_index,
                              !.lists[list_index].back = new_node_index]
              ELSE LET back == get_list_unchecked(s1, list_index).back
                       s3 == link_list_node(s1, new_node_index, back,
                                            NodeIndex_end)
                   IN [s3 EXCEPT !.lists[list_index].back = new_node_index]
    IN [s2 EXCEPT !.lists[list_index].length = @ + 1]

\* push_front setting only front when the list is empty.
push_front_sets_front_only(s, list_index, item) ==
    LET new_node_index == Len(s.nodes)
        s1 == [s EXCEPT !.nodes = Append(@, Node_new(list_index, item))]
        s2 == IF list_is_empty(s1, list_index)
              THEN [s1 EXCEPT !.lists[list_index].front = new_node_index]
              ELSE LET front == get_list_unchecked(s1, list_index).front
                       s3 == link_list_node(s1, new_node_index, NodeIndex_end,
                                            front)
                   IN [s3 EXCEPT !.lists[list_index].front = new_node_index]
    IN [s2 EXCEPT !.lists[list_index].length = @ + 1]

\* LinkedListSet::push_front
push_front(s, list_index, item) ==
    LET new_node_index == Len(s.nodes)
        s1 == [s EXCEPT !.nodes = Append(@, Node_new(list_index, item))]
        s2 == IF list_is_empty(s1, list_index)
              THEN [s1 EXCEPT !.lists[list_index].front = new_node_index,
                              !.lists[list_index].back = new_node_index]
              ELSE LET front == get_list_unchecked(s1, list_index).front
                       s3 == link_list_node(s1, new_node_index, NodeIndex_end,
                                            front)
                   IN [s3 EXCEPT !.lists[list_index].front = new_node_index]
    IN [s2 EXCEPT !.lists[list_index].length = @ + 1]

\* LinkedListSet::extend: push_back of each item, in order.
RECURSIVE extend(_, _, _)
extend(s, list_index, items) ==
    IF items = <<>> THEN s
    ELSE extend(push_back(s, list_index, Head(items)), list_index, Tail(items))

-----------------------------------------------------------------------------
(* Removal *)

\* unlink_list_node without `list.length -= 1`.
unlink_list_node_keeps_length(s, node_index) ==
    LET previous_index == get_node_unchecked(s, node_index).previous
        next_index == get_node_unchecked(s, node_index).next
        n1 == IF previous_index # NodeIndex_end
              THEN [s.nodes EXCEPT ![previous_index + 1].next = next_index]
              ELSE s.nodes
        n2 == IF next_index # NodeIndex_end
              THEN [n1 EXCEPT ![next_index + 1].previous = previous_index]
              ELSE n1
        list_index == n2[node_index + 1].list
        list == s.lists[list_index]
        l1 == IF list.front = node_index
              THEN [list EXCEPT !.front = next_index] ELSE list
        l2 == IF l1.back = node_index
              THEN [l1 EXCEPT !.back = previous_index] ELSE l1
    IN [s EXCEPT !.nodes = n2, !.lists[list_index] = l2]

\* LinkedListSet::unlink_list_node
\* unlink_list_node without the write to next_node.previous.
unlink_list_node_forgets_next(s, node_index) ==
    LET previous_index == get_node_unchecked(s, node_index).previous
        next_index == get_node_unchecked(s, node_index).next
        n1 == IF previous_index # NodeIndex_end
              THEN [s.nodes EXCEPT ![previous_index + 1].next = next_index]
              ELSE s.nodes
        list_index == n1[node_index + 1].list
        list == s.lists[list_index]
        l1 == IF list.front = node_index
              THEN [list EXCEPT !.front = next_index] ELSE list
        l2 == IF l1.back = node_index
              THEN [l1 EXCEPT !.back = previous_index] ELSE l1
        l3 == [l2 EXCEPT !.length = @ - 1]
    IN [s EXCEPT !.nodes = n1, !.lists[list_index] = l3]

\* unlink_list_node writing `next` of the front node of the list where it
\* should write `next` of the previous node.
unlink_list_node_patches_front(s, node_index) ==
    LET previous_index == get_node_unchecked(s, node_index).previous
        next_index == get_node_unchecked(s, node_index).next
        list_index == s.nodes[node_index + 1].list
        list == s.lists[list_index]
        n1 == IF previous_index # NodeIndex_end
              THEN [s.nodes EXCEPT ![list.front + 1].next = next_index]
              ELSE s.nodes
        n2 == IF next_index # NodeIndex_end
              THEN [n1 EXCEPT ![next_index + 1].previous = previous_index]
              ELSE n1
        l1 == IF list.front = node_index
              THEN [list EXCEPT !.front = next_index] ELSE list
        l2 == IF l1.back = node_index
              THEN [l1 EXCEPT !.back = previous_index] ELSE l1
        l3 == [l2 EXCEPT !.length = @ - 1]
    IN [s EXCEPT !.nodes = n2, !.lists[list_index] = l3]

unlink_list_node(s, node_index) ==
    LET previous_index == get_node_unchecked(s, node_index).previous
        next_index == get_node_unchecked(s, node_index).next
        n1 == IF previous_index # NodeIndex_end
              THEN [s.nodes EXCEPT ![previous_index + 1].next = next_index]
              ELSE s.nodes
        n2 == IF next_index # NodeIndex_end
              THEN [n1 EXCEPT ![next_index + 1].previous = previous_index]
              ELSE n1
        list_index == n2[node_index + 1].list
        list == s.lists[list_index]
        l1 == IF list.front = node_index
              THEN [list EXCEPT !.front = next_index] ELSE list
        l2 == IF l1.back = node_index
              THEN [l1 EXCEPT !.back = previous_index] ELSE l1
        l3 == [l2 EXCEPT !.length = @ - 1]
    IN [s EXCEPT !.nodes = n2, !.lists[list_index] = l3]

\* relink_list_node taking the list to update from the node in the slot
\* new_node_index (the removed node) instead of the node that moves.
relink_list_node_wrong_list(s, old_node_index, new_node_index) ==
    IF old_node_index # new_node_index
    THEN LET previous_index == get_node_unchecked(s, old_node_index).previous
             next_index == get_node_unchecked(s, old_node_index).next
             n1 == IF previous_index # NodeIndex_end
                   THEN [s.nodes EXCEPT
                           ![previous_index + 1].next = new_node_index]
                   ELSE s.nodes
             n2 == IF next_index # NodeIndex_end
                   THEN [n1 EXCEPT ![next_index + 1].previous = new_node_index]
                   ELSE n1
             list_index == n2[new_node_index + 1].list
             list == s.lists[list_index]
             l1 == IF list.front = old_node_index
                   THEN [list EXCEPT !.front = new_node_index] ELSE list
             l2 == IF l1.back = old_node_index
                   THEN [l1 EXCEPT !.back = new_node_index] ELSE l1
         IN [s EXCEPT !.nodes = n2, !.lists[list_index] = l2]
    ELSE s

\* relink_list_node with one test for the two ends: when the moved node is
\* the front or the back of its list, both ends are set to its new position.
relink_list_node_moves_both_ends(s, old_node_index, new_node_index) ==
    IF old_node_index # new_node_index
    THEN LET previous_index == get_node_unchecked(s, old_node_index).previous
             next_index == get_node_unchecked(s, old_node_index).next
             n1 == IF previous_index # NodeIndex_end
                   THEN [s.nodes EXCEPT
                           ![previous_index + 1].next = new_node_index]
                   ELSE s.nodes
             n2 == IF next_index # NodeIndex_end
                   THEN [n1 EXCEPT ![next_index + 1].previous = new_node_index]
                   ELSE n1
             list_index == n2[old_node_index + 1].list
             list == s.lists[list_index]
             l1 == IF list.front = old_node_index \/ list.back = old_node_index
                   THEN [list EXCEPT !.front = new_node_index,
                                     !.back = new_node_index]
                   ELSE list
         IN [s EXCEPT !.nodes = n2, !.lists[list_index] = l1]
    ELSE s

\* LinkedListSet::relink_list_node
relink_list_node(s, old_node_index, new_node_index) ==
    IF old_node_index # new_node_index
    THEN LET previous_index == get_node_unchecked(s, old_node_index).previous
             next_index == get_node_unchecked(s, old_node_index).next
             n1 == IF previous_index # NodeIndex_end
                   THEN [s.nodes EXCEPT
                           ![previous_index + 1].next = new_node_index]
                   ELSE s.nodes
             n2 == IF next_index # NodeIndex_end
                   THEN [n1 EXCEPT ![next_index + 1].previous = new_node_index]
                   ELSE n1
             list_index == n2[old_node_index + 1].list
             list == s.lists[list_index]
             l1 == IF list.front = old_node_index
                   THEN [list EXCEPT !.front = new_node_index] ELSE list
             l2 == IF l1.back = old_node_index
                   THEN [l1 EXCEPT !.back = new_node_index] ELSE l1
         IN [s EXCEPT !.nodes = n2, !.lists[list_index] = l2]
    ELSE s

\* Vec::remove(index) in the place of Vec::swap_remove(index): the later
\* elements move down by one.
swap_remove_shifts(ns, index) ==
    [i \in 1..(Len(ns) - 1) |-> IF i < index + 1 THEN ns[i] ELSE ns[i + 1]]

\* swap_remove moving the last element into the slot without its payload:
\* the slot keeps the payload it held.
swap_remove_keeps_payload(ns, index) ==
    LET last == ns[Len(ns)]
        kept == SubSeq(ns, 1, Len(ns) - 1)
    IN IF index + 1 = Len(ns) THEN kept
       ELSE [kept EXCEPT ![index + 1] =
                [last EXCEPT !.item = ns[index + 1].item]]

\* swap_remove storing the last element in the slot with its links reset.
swap_remove_resets_links(ns, index) ==
    LET last == ns[Len(ns)]
        kept == SubSeq(ns, 1, Len(ns) - 1)
    IN IF index + 1 = Len(ns) THEN kept
       ELSE [kept EXCEPT ![index + 1] =
                [last EXCEPT !.previous = NodeIndex_end,
                             !.next = NodeIndex_end]]

\* Vec::swap_remove(index): the last element takes the place of the removed
\* one and the vector is one shorter.
swap_remove(ns, index) ==
    LET last == ns[Len(ns)]
        kept == SubSeq(ns, 1, Len(ns) - 1)
    IN IF index + 1 = Len(ns) THEN kept
       ELSE [kept EXCEPT ![index + 1] = last]

\* remove_list_node returning the payload found in the slot after swap_remove
\* (the relocated node's) when the slot is still in use.
remove_list_node_returns_moved(s, node_to_be_removed_index) ==
    LET node_to_be_moved_index == Len(s.nodes) - 1
        s1 == unlink_list_node(s, node_to_be_removed_index)
        s2 == relink_list_node(s1, node_to_be_moved_index,
                               node_to_be_removed_index)
        left == swap_remove(s2.nodes, node_to_be_removed_index)
        removed == IF node_to_be_removed_index < Len(left)
                   THEN left[node_to_be_removed_index + 1]
                   ELSE s2.nodes[node_to_be_removed_index + 1]
    IN [set |-> [s2 EXCEPT !.nodes = left], ret |-> removed.item]

\* LinkedListSet::remove_list_node
remove_list_node(s, node_to_be_removed_index) ==
    LET node_to_be_moved_index == Len(s.nodes) - 1
        s1 == unlink_list_node(s, node_to_be_removed_index)
        s2 == relink_list_node(s1, node_to_be_moved_index,
                               node_to_be_removed_index)
        removed == s2.nodes[node_to_be_removed_index + 1]
    IN [set |-> [s2 EXCEPT !.nodes = swap_remove(@, node_to_be_removed_index)],
        ret |-> removed.item]

\* The loop of LinkedListSet::remove from (current_index, i).
RECURSIVE remove_from(_, _, _, _, _)
remove_from(s, at, current_index, i, fuel) ==
    IF current_index = NodeIndex_end \/ fuel = 0
    THEN [set |-> s, ret |-> None]
    ELSE IF i = at
         THEN LET r == remove_list_node(s, current_index)
              IN [set |-> r.set, ret |-> Some(<<r.ret, i>>)]
         ELSE remove_from(s, at,
                          get_node_unchecked(s, current_index).next,
                          i + 1, fuel - 1)

\* remove with the position counter `i` starting at 1.
remove_counts_from_one(s, list_index, at) ==
    remove_from(s, at, get_list_unchecked(s, list_index).front, 1,
                Len(s.nodes) + 1)

\* LinkedListSet::remove
remove(s, list_index, at) ==
    remove_from(s, at, get_list_unchecked(s, list_index).front, 0,
                Len(s.nodes) + 1)

\* The loop of LinkedListSet::remove_item from (current_index, i).
RECURSIVE remove_item_from(_, _, _, _, _)
remove_item_from(s, item, current_index, i, fuel) ==
    IF current_index = NodeIndex_end \/ fuel = 0
    THEN [set |-> s, ret |-> None]
    ELSE IF get_node_unchecked(s, current_index).item = item
         THEN LET r == remove_list_node(s, current_index)
              IN [set |-> r.set, ret |-> Some(<<r.ret, i>>)]
         ELSE remove_item_from(s, item,
                               get_node_unchecked(s, current_index).next,
                               i + 1, fuel - 1)

\* remove_item scanning from the back of the list along `previous`.
RECURSIVE remove_item_from_back(_, _, _, _, _)
remove_item_from_back(s, item, current_index, i, fuel) ==
    IF current_index = NodeIndex_end \/ fuel = 0
    THEN [set |-> s, ret |-> None]
    ELSE IF get_node_unchecked(s, current_index).item = item
         THEN LET r == remove_list_node(s, current_index)
              IN [set |-> r.set, ret |-> Some(<<r.ret, i>>)]
         ELSE remove_item_from_back(s, item,
                               get_node_unchecked(s, current_index).previous,
                               i + 1, fuel - 1)

remove_item_scans_back(s, list_index, item) ==
    remove_item_from_back(s, item, get_list_unchecked(s, list_index).back, 0,
                          Len(s.nodes) + 1)

\* LinkedListSet::remove_item
remove_item(s, list_index, item) ==
    remove_item_from(s, item, get_list_unchecked(s, list_index).front, 0,
                     Len(s.nodes) + 1)

\* pop_front reading the list's back.
pop_front_takes_back(s, list_index) ==
    LET node_index == get_list_unchecked(s, list_index).back
    IN IF node_index # NodeIndex_end
       THEN LET r == remove_list_node(s, node_index)
            IN [set |-> r.set, ret |-> Some(r.ret)]
       ELSE [set |-> s, ret |-> None]

\* LinkedListSet::pop_front
pop_front(s, list_index) ==
    LET front_node_index == get_list_unchecked(s, list_index).front
    IN IF front_node_index # NodeIndex_end
       THEN LET r == remove_list_node(s, front_node_index)
            IN [set |-> r.set, ret |-> Some(r.ret)]
       ELSE [set |-> s, ret |-> None]

\* pop_back reading the list's front.
pop_back_takes_front(s, list_index) ==
    LET node_index == get_list_unchecked(s, list_index).front
    IN IF node_index # NodeIndex_end
       THEN LET r == remove_list_node(s, node_index)
            IN [set |-> r.set, ret |-> Some(r.ret)]
       ELSE [set |-> s, ret |-> None]

\* LinkedListSet::pop_back
pop_back(s, list_index) ==
    LET back_node_index == get_list_unchecked(s, list_index).back
    IN IF back_node_index # NodeIndex_end
       THEN LET r == remove_list_node(s, back_node_index)
            IN [set |-> r.set, ret |-> Some(r.ret)]
       ELSE [set |-> s, ret |-> None]

\* LinkedListSet::clear: pop_front while the list is not empty.  The loops
\* of the source (clear, remove, remove_item, contains) have no counter;
\* `fuel`, one more than the arena length, ends a loop that would not end.
RECURSIVE clear_loop(_, _, _)
clear_loop(s, list_index, fuel) ==
    IF list_is_empty(s, list_index) \/ fuel = 0 THEN s
    ELSE clear_loop(pop_front(s, list_index).set, list_index, fuel - 1)

\* The loop of LinkedListSet::clear seen from outside: what each pop_front
\* it calls returns, in order, ending with Unfinished when the loop is
\* still running after `fuel` calls.
Unfinished == [kind |-> "unfinished"]

RECURSIVE clear_pops(_, _, _)
clear_pops(s, list_index, fuel) ==
    IF list_is_empty(s, list_index) THEN <<>>
    ELSE IF fuel = 0 THEN <<Unfinished>>
    ELSE LET r == pop_front(s, list_index)
         IN <<r.ret>> \o clear_pops(r.set, list_index, fuel - 1)

\* clear with `if` for `while`: one pop_front.
clear_pops_once(s, list_index) == clear_loop(s, list_index, 1)

clear(s, list_index) == clear_loop(s, list_index, Len(s.nodes) + 1)

\* clear_all that also starts the handle allocator again.
clear_all_resets_alloc(s) == [s EXCEPT !.nodes = <<>>, !.lists = <<>>, !.alloc = 0]

\* clear_all emptying every list and keeping its record.
clear_all_keeps_lists(s) ==
    [s EXCEPT !.nodes = <<>>,
              !.lists = [k \in DOMAIN s.lists |-> LinkedList_new]]

\* clear_all without `self.nodes.clear()`.
clear_all_keeps_nodes(s) == [s EXCEPT !.lists = <<>>]

\* LinkedListSet::clear_all
clear_all(s) == [s EXCEPT !.nodes = <<>>, !.lists = <<>>]

\* remove_list returning true in its else branch as well.
remove_list_returns_true(s, list_index) ==
    IF contains_list(s, list_index)
    THEN LET s1 == clear(s, list_index)
         IN [set |-> [s1 EXCEPT !.lists = [k \in DOMAIN s1.lists \ {list_index}
                                             |-> s1.lists[k]]],
             ret |-> TRUE]
    ELSE [set |-> s, ret |-> TRUE]

\* remove_list without `self.clear(list_index)`: the record is deleted and
\* the nodes of the list stay in the arena.
remove_list_skips_clear(s, list_index) ==
    IF contains_list(s, list_index)
    THEN [set |-> [s EXCEPT !.lists = [k \in DOMAIN s.lists \ {list_index}
                                          |-> s.lists[k]]],
          ret |-> TRUE]
    ELSE [set |-> s, ret |-> FALSE]

\* LinkedListSet::remove_list
remove_list(s, list_index) ==
    IF contains_list(s, list_index)
    THEN LET s1 == clear(s, list_index)
         IN [set |-> [s1 EXCEPT !.lists = [k \in DOMAIN s1.lists \ {list_index}
                                             |-> s1.lists[k]]],
             ret |-> TRUE]
    ELSE [set |-> s, ret |-> FALSE]

-----------------------------------------------------------------------------
(* Element access *)

\* LinkedListSet::get_list
get_list(s, list_index) ==
    IF contains_list(s, list_index)
    THEN Some(get_list_unchecked(s, list_index))
    ELSE None

\* front reading the `back` field of the list record.
front_takes_back(s, list_index) ==
    IF get_list(s, list_index) = None THEN None
    ELSE LET front_node_index == get_list(s, list_index).value.back
         IN IF front_node_index # NodeIndex_end
            THEN Some(get_node_unchecked(s, front_node_index).item)
            ELSE None

\* LinkedListSet::front
front(s, list_index) ==
    IF get_list(s, list_index) = None THEN None
    ELSE LET front_node_index == get_list(s, list_index).value.front
         IN IF front_node_index # NodeIndex_end
            THEN Some(get_node_unchecked(s, front_node_index).item)
            ELSE None

\* LinkedListSet::back
back(s, list_index) ==
    IF get_list(s, list_index) = None THEN None
    ELSE LET back_node_index == get_list(s, list_index).value.back
         IN IF back_node_index # NodeIndex_end
            THEN Some(get_node_unchecked(s, back_node_index).item)
            ELSE None

\* The loop of LinkedListSet::contains from current_index.
RECURSIVE contains_from(_, _, _, _)
contains_from(s, item, current_index, fuel) ==
    IF current_index = NodeIndex_end \/ fuel = 0 THEN FALSE
    ELSE IF get_node_unchecked(s, current_index).item = item THEN TRUE
    ELSE contains_from(s, item, get_node_unchecked(s, current_index).next,
                       fuel - 1)

\* contains looking through the whole arena, whatever list a node is in.
contains_in_arena(s, list_index, item) ==
    \E i \in DOMAIN s.nodes : s.nodes[i].item = item

\* LinkedListSet::contains
contains(s, list_index, item) ==
    contains_from(s, item, get_list_unchecked(s, list_index).front,
                  Len(s.nodes) + 1)

\* LinkedListSet::front_mut: the payload the returned reference points to.
front_mut(s, list_index) ==
    IF get_list(s, list_index) = None THEN None
    ELSE LET front_node_index == get_list(s, list_index).value.front
         IN IF front_node_index # NodeIndex_end
            THEN Some(get_node_unchecked(s, front_node_index).item)
            ELSE None

\* LinkedListSet::back_mut: the payload the returned reference points to.
back_mut(s, list_index) ==
    IF get_list(s, list_index) = None THEN None
    ELSE LET back_node_index == get_list(s, list_index).value.back
         IN IF back_node_index # NodeIndex_end
            THEN Some(get_node_unchecked(s, back_node_index).item)
            ELSE None

\* is_empty asking the arena instead: self.nodes.is_empty()
is_empty_of_nodes(s) == s.nodes = <<>>

\* The sequences that hold every member of S once: the orders in which an
\* iterator over a HashMap can yield its keys.
Orders(S) ==
    {q \in [1..Cardinality(S) -> S] : \A x \in S : \E i \in DOMAIN q : q[i] = x}

\* list_indices yielding every handle the allocator has given out.
list_indices_of_allocator(s) == Orders(0..(s.alloc - 1))

\* LinkedListSet::list_indices consumed by ListIndices::next until None: the
\* keys of self.lists, in an order HashMap does not specify.
list_indices(s) == Orders(DOMAIN s.lists)

\* LinkedListSet::is_empty: self.lists.is_empty()
is_empty(s) == DOMAIN s.lists = {}

-----------------------------------------------------------------------------
(* Calls with a list that is not in the set *)

\* Call c, which came to r, panicked.  remove_list returns a plain bool and
\* looks no list up unchecked.
Panicked(c, r) == c.name # "remove_list" /\ r = Panic

\* The lookup done with get_list(list_index)? instead: the call returns None
\* when the list is not in the set.
with_list_checked(s, list_index, outcome) ==
    IF contains_list(s, list_index) THEN outcome
    ELSE [set |-> s, ret |-> None]

\* A call whose first statement is get_list_unchecked(list_index).  The
\* lookup `&self.lists[&list_index]` panics when the list is not in the set,
\* before the call has written anything; otherwise the call comes to
\* `outcome`.
with_list_unchecked(s, list_index, outcome) ==
    IF contains_list(s, list_index) THEN outcome
    ELSE [set |-> s, ret |-> Panic]

\* push_back and push_front: self.nodes.push(new_node) comes before the
\* first get_list_unchecked(list_index), so the node is in the arena when the
\* lookup panics.  `pushed` is the set after the whole push.
push_with_list_unchecked(s, list_index, item, pushed) ==
    IF contains_list(s, list_index) THEN [set |-> pushed, ret |-> Unit]
    ELSE [set |-> [s EXCEPT !.nodes = Append(@, Node_new(list_index, item))],
          ret |-> Panic]

\* extend: nothing is looked up for no items; the push_back of the first
\* item panics when the list is not in the set.
extend_with_list_unchecked(s, list_index, items) ==
    IF items = <<>> THEN [set |-> s, ret |-> Unit]
    ELSE push_with_list_unchecked(s, list_index, Head(items),
                                  extend(s, list_index, items))

-----------------------------------------------------------------------------
(* The state machine: one action per public mutating operation *)

\* The set in the current state.
Cur == Set(alloc, lists, nodes)

\* The handles new_list can have issued.
Handles == 0..(MaxHandles - 1)

\* The handles a caller may pass: those, live or not, and ListIndex::end().
AnyHandles == Handles \cup {ListIndex_end}

\* The handles the calls are made with.  The callers of Spec pass any handle;
\* the other specifications follow the calls made with a list of the set.
CallerHandles == IF track = "none" THEN AnyHandles ELSE DOMAIN lists

\* SpecPatch follows a caller that fills a larger arena and then takes
\* nodes out of it: track is "patch" while it fills and "drain" from its
\* first removal on.
PatchTracks == {"patch", "drain"}

\* The payloads the calls are made with.  SpecPatch follows the links and
\* pushes one payload.
CallerItems == IF track \in PatchTracks THEN {1} ELSE Items

\* The most nodes the arena is given.
ArenaBound == IF track \in PatchTracks THEN MaxPatchNodes ELSE MaxNodes

\* The sequences of at most n payloads.
RECURSIVE SeqsUpTo(_)
SeqsUpTo(n) ==
    IF n = 0 THEN {<<>>}
    ELSE LET shorter == SeqsUpTo(n - 1)
         IN shorter \cup {Append(q, x) : q \in {r \in shorter : Len(r) = n - 1},
                                         x \in Items}

\* The item sequences extend is called with.
ExtendInputs == SeqsUpTo(MaxExtend)

\* Nothing has been pushed to list h since it was last empty.
NoPushes(h) == [list |-> h, kind |-> "fresh", xs |-> <<>>]

\* The pushes made to the watched list log.list since it was last empty,
\* after call c took the set to s2 and returned r.
NextPushLog(log, c, s2, r) ==
    IF log.list \notin DOMAIN s2.lists THEN NoPushes(log.list)
    ELSE IF c.name = "new_list" \/ c.list # log.list THEN log
    ELSE IF c.name = "push_back"
         THEN IF log.kind \in {"fresh", "back"}
              THEN [log EXCEPT !.kind = "back", !.xs = Append(@, c.item)]
              ELSE [log EXCEPT !.kind = "mixed", !.xs = <<>>]
    ELSE IF c.name = "push_front"
         THEN IF log.kind \in {"fresh", "front"}
              THEN [log EXCEPT !.kind = "front", !.xs = Append(@, c.item)]
              ELSE [log EXCEPT !.kind = "mixed", !.xs = <<>>]
    ELSE IF c.name = "extend"
         THEN IF c.items = <<>> THEN log
              ELSE IF log.kind \in {"fresh", "back"}
                   THEN [log EXCEPT !.kind = "back", !.xs = @ \o c.items]
                   ELSE [log EXCEPT !.kind = "mixed", !.xs = <<>>]
    ELSE IF r = None THEN log
    ELSE IF iter(s2, log.list) = <<>> THEN NoPushes(log.list)
    ELSE [log EXCEPT !.kind = "mixed", !.xs = <<>>]

NoTrip == [phase |-> "none"]

\* The push/pop pair in progress after call c.
NextTrip(t, c, s) ==
    IF c.name \in {"push_back", "push_front"}
    THEN [phase |-> "pushed", end |-> c.name, list |-> c.list,
          item |-> c.item, items |-> iter(s, c.list),
          length |-> len(s, c.list)]
    ELSE IF /\ t.phase = "pushed"
            /\ \/ c.name = "pop_back" /\ t.end = "push_back"
               \/ c.name = "pop_front" /\ t.end = "push_front"
            /\ c.list = t.list
         THEN [t EXCEPT !.phase = "popped"]
         ELSE NoTrip

\* The caller holds no iterator.
NoIter == [kind |-> "none"]

\* No call is in progress: the caller holds no result.
Idle == [name |-> "idle"]

\* Public call c takes the set to s2 and returns r.  Until the caller drops
\* the result (Return), call, ret and pre describe the call; SpecIter, which
\* follows the iterators, drops the result at once.
Step(c, s2, r) ==
    /\ alloc' = s2.alloc
    /\ lists' = s2.lists
    /\ nodes' = s2.nodes
    /\ call' = IF track = "iter" THEN Idle ELSE c
    /\ ret' = IF track = "iter" THEN Unit ELSE r
    /\ pre' = IF track \in {"none", "wrap", "live"} \cup PatchTracks THEN Cur
              ELSE LinkedListSet_new
    /\ issued' = IF c.name = "new_list" /\ r # Panic
                 THEN Append(issued, r.value)
                 ELSE issued
    /\ track' = IF track = "patch" /\ c.name = "remove" THEN "drain" ELSE track
    /\ pushlog' = IF track = "order"
                  THEN NextPushLog(pushlog, c, s2, r)
                  ELSE pushlog
    /\ trip' = IF track = "trip" THEN NextTrip(trip, c, Cur) ELSE trip
    /\ cursor' = cursor

\* The caller is done with the result of the last call.
Return ==
    /\ call # Idle
    /\ ~Panicked(call, ret)
    /\ call' = Idle
    /\ ret' = Unit
    /\ pre' = LinkedListSet_new
    /\ trip' = IF trip.phase = "popped" THEN NoTrip ELSE trip
    /\ UNCHANGED <<alloc, lists, nodes, issued, track, pushlog, cursor>>

\* The state after LinkedListSet::new(), keeping the record `t` of past calls
\* and watching list w.
InitTracking(t, w) ==
    /\ alloc = LinkedListSet_new.alloc
    /\ lists = LinkedListSet_new.lists
    /\ nodes = LinkedListSet_new.nodes
    /\ call = Idle
    /\ ret = Unit
    /\ pre = LinkedListSet_new
    /\ issued = <<>>
    /\ track = t
    /\ pushlog = NoPushes(w)
    /\ trip = NoTrip
    /\ cursor = NoIter

Init == InitTracking("none", 0)

InitOrder == \E w \in Handles : InitTracking("order", w)

InitTrip == InitTracking("trip", 0)

InitIter == InitTracking("iter", 0)

InitPatch == InitTracking("patch", 0)

InitLive == InitTracking("live", 0)

\* The set after UsizeMax - 1 calls of new_list, when the lists but the
\* first, still empty, have been removed: the counter is two short of
\* wrapping.  Of the handles issued the record keeps the first.
InitWrap ==
    /\ alloc = UsizeMax - 1
    /\ lists = [k \in {0} |-> LinkedList_new]
    /\ nodes = <<>>
    /\ call = Idle
    /\ ret = Unit
    /\ pre = Set(UsizeMax - 1, [k \in {0} |-> LinkedList_new], <<>>)
    /\ issued = <<0>>
    /\ track = "wrap"
    /\ pushlog = NoPushes(0)
    /\ trip = NoTrip
    /\ cursor = NoIter

\* new_list is called while the counter is within MaxHandles of where it
\* started or of usize::MAX, in a build with overflow checks or without.
NewList ==
    /\ call = Idle
    /\ alloc < MaxHandles \/ alloc > UsizeMax - MaxHandles
    /\ \E overflow_checks \in BOOLEAN :
          LET r == new_list(Cur, overflow_checks)
          IN Step([name |-> "new_list"], r.set, r.ret)

RemoveList ==
    /\ call = Idle
    /\ \E h \in AnyHandles :
          LET r == remove_list(Cur, h)
          IN Step([name |-> "remove_list", list |-> h], r.set, r.ret)

ClearAll ==
    /\ call = Idle
    /\ Step([name |-> "clear_all"], clear_all(Cur), Unit)

PushBack ==
    /\ call = Idle
    /\ Len(nodes) < ArenaBound
    /\ track # "drain"
    /\ \E h \in CallerHandles, x \in CallerItems :
          LET r == push_with_list_unchecked(Cur, h, x, push_back(Cur, h, x))
          IN Step([name |-> "push_back", list |-> h, item |-> x],
                  r.set, r.ret)

PushFront ==
    /\ call = Idle
    /\ Len(nodes) < MaxNodes
    /\ \E h \in CallerHandles, x \in Items :
          LET r == push_with_list_unchecked(Cur, h, x, push_front(Cur, h, x))
          IN Step([name |-> "push_front", list |-> h, item |-> x],
                  r.set, r.ret)

Extend ==
    /\ call = Idle
    /\ \E h \in CallerHandles, xs \in ExtendInputs :
          /\ Len(nodes) + Len(xs) <= MaxNodes
          /\ LET r == extend_with_list_unchecked(Cur, h, xs)
             IN Step([name |-> "extend", list |-> h, items |-> xs],
                     r.set, r.ret)

PopFront ==
    /\ call = Idle
    /\ \E h \in CallerHandles :
          LET r == with_list_unchecked(Cur, h, pop_front(Cur, h))
          IN Step([name |-> "pop_front", list |-> h], r.set, r.ret)

PopBack ==
    /\ call = Idle
    /\ \E h \in CallerHandles :
          LET r == with_list_unchecked(Cur, h, pop_back(Cur, h))
          IN Step([name |-> "pop_back", list |-> h], r.set, r.ret)

Remove ==
    /\ call = Idle
    /\ track = "drain" => Len(nodes) > MaxPatchNodes - 2
    /\ \E h \in CallerHandles, at \in 0..ArenaBound :
          LET r == with_list_unchecked(Cur, h, remove(Cur, h, at))
          IN Step([name |-> "remove", list |-> h, at |-> at], r.set, r.ret)

RemoveItem ==
    /\ call = Idle
    /\ \E h \in CallerHandles, x \in Items :
          LET r == with_list_unchecked(Cur, h, remove_item(Cur, h, x))
          IN Step([name |-> "remove_item", list |-> h, item |-> x],
                  r.set, r.ret)

Clear ==
    /\ call = Idle
    /\ \E h \in CallerHandles :
          LET r == with_list_unchecked(Cur, h,
                                       [set |-> clear(Cur, h), ret |-> Unit])
          IN Step([name |-> "clear", list |-> h], r.set, r.ret)

Front ==
    /\ call = Idle
    /\ \E h \in CallerHandles :
          Step([name |-> "front", list |-> h], Cur, front(Cur, h))

Back ==
    /\ call = Idle
    /\ \E h \in CallerHandles :
          Step([name |-> "back", list |-> h], Cur, back(Cur, h))

FrontMut ==
    /\ call = Idle
    /\ \E h \in CallerHandles :
          Step([name |-> "front_mut", list |-> h], Cur, front_mut(Cur, h))

BackMut ==
    /\ call = Idle
    /\ \E h \in CallerHandles :
          Step([name |-> "back_mut", list |-> h], Cur, back_mut(Cur, h))

ListLen ==
    /\ call = Idle
    /\ \E h \in CallerHandles :
          LET r == with_list_unchecked(Cur, h,
                                       [set |-> Cur, ret |-> Value(len(Cur, h))])
          IN Step([name |-> "len", list |-> h], r.set, r.ret)

ListIsEmpty ==
    /\ call = Idle
    /\ \E h \in CallerHandles :
          LET r == with_list_unchecked(
                       Cur, h, [set |-> Cur, ret |-> Value(list_is_empty(Cur, h))])
          IN Step([name |-> "list_is_empty", list |-> h], r.set, r.ret)

Contains ==
    /\ call = Idle
    /\ \E h \in CallerHandles, x \in Items :
          LET r == with_list_unchecked(
                       Cur, h, [set |-> Cur, ret |-> Value(contains(Cur, h, x))])
          IN Step([name |-> "contains", list |-> h, item |-> x], r.set, r.ret)

IsEmpty ==
    /\ call = Idle
    /\ Step([name |-> "is_empty"], Cur, Value(is_empty(Cur)))

ListIndices ==
    /\ call = Idle
    /\ \E order \in list_indices(Cur) :
          Step([name |-> "list_indices"], Cur, Value(order))

Next ==
    \/ NewList
    \/ RemoveList
    \/ ClearAll
    \/ PushBack
    \/ PushFront
    \/ Extend
    \/ PopFront
    \/ PopBack
    \/ Remove
    \/ RemoveItem
    \/ Clear
    \/ Front
    \/ Back
    \/ FrontMut
    \/ BackMut
    \/ ListLen
    \/ ListIsEmpty
    \/ Contains
    \/ IsEmpty
    \/ ListIndices
    \/ Return

Spec == Init /\ [][Next]_vars

\* The iterator the caller holds right after LinkedListSet::iter or iter_mut
\* returned it: nothing asked of it yet (last, hint), no node handed out
\* (given counts the references handed out per arena position).
NewCursor(kind, h, it) ==
    [kind |-> kind, list |-> h, it |-> it, last |-> Unit, hint |-> None,
     given |-> [p \in 0..(Len(nodes) - 1) |-> 0]]

\* LinkedListSet::iter.  The iterator borrows the set: until it is dropped
\* no other call is made.
Iter ==
    /\ call = Idle
    /\ \E h \in CallerHandles :
          /\ call' = [name |-> "iter", list |-> h]
          /\ IF contains_list(Cur, h)
             THEN ret' = Unit /\ cursor' = NewCursor("iter", h, ListIter(Cur, h))
             ELSE ret' = Panic /\ cursor' = NoIter
    /\ UNCHANGED <<alloc, lists, nodes, pre, issued, track, pushlog, trip>>

\* LinkedListSet::iter_mut
IterMut ==
    /\ call = Idle
    /\ \E h \in CallerHandles :
          /\ call' = [name |-> "iter_mut", list |-> h]
          /\ IF contains_list(Cur, h)
             THEN /\ ret' = Unit
                  /\ cursor' = NewCursor("iter_mut", h, ListIterMut(Cur, h))
             ELSE ret' = Panic /\ cursor' = NoIter
    /\ UNCHANGED <<alloc, lists, nodes, pre, issued, track, pushlog, trip>>

\* The caller's iterator after a next or next_back that came to r.  A cursor
\* outside the arena panics in ListIter (slice index) and in ListIterMut
\* when bounded_by fails; a position bounded_by lets through at the arena
\* length is read out of bounds, and anything may come back.
Advance(r, position) ==
    IF position >= Len(nodes)
    THEN IF cursor.kind = "iter" \/ ~bounded_by(Len(nodes), position)
         THEN ret' = Panic /\ cursor' = NoIter
         ELSE /\ ret' = Unit
              /\ \E x \in Items, c \in 0..Len(nodes) \cup {NodeIndex_end} :
                    cursor' = [cursor EXCEPT !.last = Some(x), !.hint = None,
                                             !.it.current_front = c,
                                             !.it.current_back = c]
    ELSE /\ ret' = Unit
         /\ cursor' = [cursor EXCEPT
                          !.it = r.it, !.last = r.ret, !.hint = None,
                          !.given = IF r.node = NodeIndex_end THEN @
                                    ELSE [@ EXCEPT ![r.node] = @ + 1]]

\* ListIter::next, ListIterMut::next
IterNext ==
    /\ cursor # NoIter
    /\ IF cursor.it.current_front = NodeIndex_end
       THEN Advance(ListIter_next(cursor.it, nodes), 0)
       ELSE Advance(ListIter_next(cursor.it, nodes), cursor.it.current_front)
    /\ UNCHANGED <<alloc, lists, nodes, call, pre, issued, track, pushlog,
                   trip>>

\* ListIter::next_back, ListIterMut::next_back
IterNextBack ==
    /\ cursor # NoIter
    /\ IF cursor.it.current_back = NodeIndex_end
       THEN Advance(ListIter_next_back(cursor.it, nodes), 0)
       ELSE Advance(ListIter_next_back(cursor.it, nodes),
                    cursor.it.current_back)
    /\ UNCHANGED <<alloc, lists, nodes, call, pre, issued, track, pushlog,
                   trip>>

\* ListIter::size_hint, ListIterMut::size_hint
IterSizeHint ==
    /\ cursor # NoIter
    /\ cursor.hint = None
    /\ cursor' = [cursor EXCEPT !.hint = Some(ListIter_size_hint(cursor.it))]
    /\ UNCHANGED <<alloc, lists, nodes, call, ret, pre, issued, track, pushlog,
                   trip>>

\* The caller drops the iterator; the borrow of the set ends.
IterDrop ==
    /\ cursor # NoIter
    /\ call' = Idle
    /\ ret' = Unit
    /\ cursor' = NoIter
    /\ UNCHANGED <<alloc, lists, nodes, pre, issued, track, pushlog, trip>>

\* The calls that write and the life of an iterator.
NextIter ==
    \/ NewList
    \/ RemoveList
    \/ ClearAll
    \/ PushBack
    \/ PushFront
    \/ Extend
    \/ PopFront
    \/ PopBack
    \/ Remove
    \/ RemoveItem
    \/ Clear
    \/ Iter
    \/ IterMut
    \/ IterNext
    \/ IterNextBack
    \/ IterSizeHint
    \/ IterDrop

\* The writes of the same program and the iterators over its lists.
SpecIter == InitIter /\ [][NextIter]_vars

\* The calls that take &mut self and return: the calls that write.
NextWrite ==
    \/ NewList
    \/ RemoveList
    \/ ClearAll
    \/ PushBack
    \/ PushFront
    \/ Extend
    \/ PopFront
    \/ PopBack
    \/ Remove
    \/ RemoveItem
    \/ Clear
    \/ Return

\* The writes of the same program, keeping the pushes made to one list.
SpecOrder == InitOrder /\ [][NextWrite]_vars

\* The writes of the same program, keeping the push of a push/pop pair.
SpecTrip == InitTrip /\ [][NextWrite]_vars

\* The writes of the same program when every call is made with the handle
\* of a list of the set: the calls that return normally.
SpecLive == InitLive /\ [][NextWrite]_vars

\* The calls that create and delete lists, with a push and a pop to tell
\* one list from another.
NextWrap ==
    \/ NewList
    \/ RemoveList
    \/ ClearAll
    \/ PushBack
    \/ PopFront
    \/ Return

\* The same program when its handle counter is about to pass usize::MAX.
SpecWrap == InitWrap /\ [][NextWrap]_vars

InitBound == InitTracking("bound", 0)

\* The bounds check of ListIterMut::next and ListIterMut::next_back, applied
\* to a node slice of a given length and a cursor position.
BoundedBy ==
    /\ \E length \in 0..MaxBoundLen, count \in 0..(MaxBoundLen + 1) :
          /\ call' = [name |-> "bounded_by", length |-> length,
                       count |-> count]
          /\ ret' = Value(bounded_by(length, count))
    /\ UNCHANGED <<alloc, lists, nodes, pre, issued, track, pushlog, trip,
                   cursor>>

\* The bounds check on its own, over the lengths and positions it can be
\* given.
SpecBound == InitBound /\ [][BoundedBy]_vars

\* The calls that fill an arena and then take single nodes out of it.
NextPatch ==
    \/ NewList
    \/ PushBack
    \/ Remove
    \/ Return

\* The same program with an arena large enough for a removed node and the
\* last node to have two list neighbours each, all different.
SpecPatch == InitPatch /\ [][NextPatch]_vars

-----------------------------------------------------------------------------
(* Properties *)

\* The sequence xs without its element at position i, counted from 0.
WithoutPosition(xs, i) ==
    [k \in 1..(Len(xs) - 1) |-> IF k <= i THEN xs[k] ELSE xs[k + 1]]

\* The sequence xs in reverse.
Reversed(xs) == [k \in 1..Len(xs) |-> xs[Len(xs) + 1 - k]]

\* The positions, counted from 0, of the elements of xs equal to x.
PositionsOf(xs, x) == {k \in 0..(Len(xs) - 1) : xs[k + 1] = x}

\* The smallest member of a non-empty set of numbers.
Least(S) == CHOOSE k \in S : \A j \in S : k <= j

\* The calls that target one list.
ListCalls ==
    {"push_back", "push_front", "pop_front", "pop_back", "remove",
     "remove_item", "clear", "extend", "remove_list"}

\* The call that led to this state was one of `names`, on a live list.
Called(names) ==
    /\ call.name \in names
    /\ call.list \in DOMAIN pre.lists

\* Every list has the length and the payloads it had before the call, and
\* the arena has as many nodes.
SetUnchanged ==
    /\ DOMAIN lists = DOMAIN pre.lists
    /\ \A g \in DOMAIN lists :
          /\ len(Cur, g) = len(pre, g)
          /\ iter(Cur, g) = iter(pre, g)
    /\ node_count(Cur) = node_count(pre)

\* The arena position of the node at position `at` of list h before the call.
PositionBefore(h, at) ==
    walk_next(pre.nodes, pre.lists[h].front, Len(pre.nodes) + 1)[at + 1]

\* The last arena position before the call.
LastBefore == Len(pre.nodes) - 1

\* C1: a call on live list A leaves every other live list B live, with the
\* length and the payload sequence it had before the call.
C1_ListIndependence ==
    Called(ListCalls) =>
        \A B \in DOMAIN pre.lists \ {call.list} :
            /\ contains_list(Cur, B)
            /\ len(Cur, B) = len(pre, B)
            /\ iter(Cur, B) = iter(pre, B)

\* C1 witness: a removal from A relocated the node of another list B, the
\* one at the last arena position, into the slot of A's node.
C1_Witness ==
    /\ Called({"remove", "remove_item", "pop_front", "pop_back"})
    /\ ret # None
    /\ pre.nodes[Len(pre.nodes)].list # call.list
    /\ len(pre, call.list) >= 2

\* C2: remove(h, at) with at < len(h) leaves the payloads of h as before
\* with exactly the one at position `at` deleted.
C2_SwapRemoveCorrect ==
    (Called({"remove"}) /\ call.at < len(pre, call.list)) =>
        iter(Cur, call.list) =
            WithoutPosition(iter(pre, call.list), call.at)

\* C2 witness: the removed node was a list neighbour of the node at the last
\* arena position, and two payloads are left.
C2_Witness ==
    /\ Called({"remove"})
    /\ call.at < len(pre, call.list)
    /\ LET p == PositionBefore(call.list, call.at)
       IN /\ p # LastBefore
          /\ \/ pre.nodes[p + 1].next = LastBefore
             \/ pre.nodes[p + 1].previous = LastBefore
    /\ Len(iter(Cur, call.list)) = 2

\* C3: for every live list, len(h) is the number of payloads iter(h) yields.
C3_LengthInvariant ==
    \A h \in DOMAIN lists : len(Cur, h) = Len(iter(Cur, h))

\* C3 witness: a removal from the middle left a list of two.
C3_Witness ==
    /\ Called({"remove", "remove_item"})
    /\ ret # None
    /\ ret.value[2] = 1
    /\ len(Cur, call.list) = 2

\* C4: a list that has only been pushed to the back since it was empty
\* yields its payloads in push order; one only pushed to the front yields
\* them in the reverse of push order.
C4_OrderPreservation ==
    pushlog.list \in DOMAIN lists =>
        /\ pushlog.kind = "back" => iter(Cur, pushlog.list) = pushlog.xs
        /\ pushlog.kind = "front" =>
              iter(Cur, pushlog.list) = Reversed(pushlog.xs)

\* C4 witness: two different payloads were pushed to the front of a list,
\* a push to another list between them.
C4_Witness ==
    /\ pushlog.list \in DOMAIN lists
    /\ pushlog.kind = "front"
    /\ Len(pushlog.xs) = 2
    /\ pushlog.xs[1] # pushlog.xs[2]
    /\ Len(nodes) = 3
    /\ nodes[1].list = pushlog.list
    /\ nodes[2].list # pushlog.list
    /\ nodes[3].list = pushlog.list

C6_RemoveReturns ==
    (Called({"remove"}) /\ call.at < len(pre, call.list)) =>
        ret = Some(<<iter(pre, call.list)[call.at + 1], call.at>>)

\* C6 witness: the second payload was removed, the first being different,
\* and a node was relocated into its slot.
C6_Witness ==
    /\ Called({"remove"})
    /\ call.at = 1
    /\ len(pre, call.list) >= 2
    /\ iter(pre, call.list)[1] # iter(pre, call.list)[2]
    /\ PositionBefore(call.list, 1) # LastBefore

\* C7: remove(h, at) with at >= len(h) returns None and changes no list and
\* not the node count.
C7_RemoveOutOfRange ==
    (Called({"remove"}) /\ call.at >= len(pre, call.list)) =>
        ret = None /\ SetUnchanged

\* C7 witness: remove was called with at = len(h) on a list that is not
\* empty.
C7_Witness ==
    /\ Called({"remove"})
    /\ call.at = len(pre, call.list)
    /\ len(pre, call.list) >= 2

\* C8: remove_item(h, x) removes the first element equal to x, at position
\* i, and returns Some((x, i)); the other elements stay in place, so x is
\* still contained when it occurred more than once; with no element equal to
\* x it returns None and changes nothing.
C8_RemovalTargeting ==
    Called({"remove_item"}) =>
        LET xs == iter(pre, call.list)
            at == PositionsOf(xs, call.item)
        IN IF at # {}
           THEN /\ ret = Some(<<call.item, Least(at)>>)
                /\ iter(Cur, call.list) = WithoutPosition(xs, Least(at))
                /\ Cardinality(at) > 1 => contains(Cur, call.list, call.item)
           ELSE ret = None /\ SetUnchanged

\* C8 witness: the payload occurred twice, first at position 1.
C8_Witness ==
    /\ Called({"remove_item"})
    /\ PositionsOf(iter(pre, call.list), call.item) = {1, 2}
    /\ contains(Cur, call.list, call.item)

\* C9: pop_back right after push_back(h, x) returns x and leaves len(h) and
\* the payloads of h as they were before the push; likewise pop_front right
\* after push_front.
C9_RoundTrip ==
    trip.phase = "popped" =>
        /\ ret = Some(trip.item)
        /\ len(Cur, trip.list) = trip.length
        /\ iter(Cur, trip.list) = trip.items

\* C9 witness: a push_back/pop_back pair on a list of two different payloads,
\* the pushed one different from the one at the front.
C9_Witness ==
    /\ trip.phase = "popped"
    /\ trip.end = "push_back"
    /\ Len(trip.items) = 2
    /\ trip.items[1] # trip.items[2]
    /\ trip.item # trip.items[1]

\* C10: pop_front on a list that is not empty returns the payload front(h)
\* gave before the call and removes that element alone; pop_back likewise
\* with back(h); on an empty list both return None and change nothing.
C10_PopEnds ==
    /\ Called({"pop_front"}) =>
          LET xs == iter(pre, call.list)
          IN IF len(pre, call.list) > 0
             THEN /\ ret = front(pre, call.list)
                  /\ ret = Some(xs[1])
                  /\ iter(Cur, call.list) = WithoutPosition(xs, 0)
                  /\ len(Cur, call.list) = len(pre, call.list) - 1
             ELSE ret = None /\ SetUnchanged
    /\ Called({"pop_back"}) =>
          LET xs == iter(pre, call.list)
          IN IF len(pre, call.list) > 0
             THEN /\ ret = back(pre, call.list)
                  /\ ret = Some(xs[Len(xs)])
                  /\ iter(Cur, call.list) = WithoutPosition(xs, Len(xs) - 1)
                  /\ len(Cur, call.list) = len(pre, call.list) - 1
             ELSE ret = None /\ SetUnchanged

\* C10 witness: pop_front took the front of a list of three whose ends
\* differ, the front node not being the last of the arena.
C10_Witness ==
    /\ Called({"pop_front"})
    /\ len(pre, call.list) = 3
    /\ iter(pre, call.list)[1] # iter(pre, call.list)[3]
    /\ pre.lists[call.list].front # LastBefore

\* The call that led to this state was one of `names`.
CalledAny(names) == call.name \in names

\* The list the call was made with was not in the set.
ListUnknown == call.list \notin DOMAIN pre.lists

C12_RemoveUnknownAbsent ==
    CalledAny({"remove", "remove_item"}) /\ ListUnknown =>
        ~Panicked(call, ret) /\ ret = None

\* C13: len and list_is_empty called with a list that is not in the set
\* panic instead of returning a value, and leave the set as it was.
C13_LenUnknownPanics ==
    CalledAny({"len", "list_is_empty"}) /\ ListUnknown =>
        Panicked(call, ret) /\ Cur = pre

\* C13 witness: len panicked on the handle of a list that was removed, the
\* set holding another list with nodes.
C13_Witness ==
    /\ CalledAny({"len"})
    /\ ListUnknown
    /\ \E i \in DOMAIN issued : issued[i] = call.list
    /\ node_count(pre) > 0
    /\ Panicked(call, ret)

\* The arena positions of the nodes of set s that name list h as theirs.
OwnedBy(s, h) == {i \in DOMAIN s.nodes : s.nodes[i].list = h}

\* C14: remove_list on a list of the set returns true; afterwards the list is
\* not in the set, there is one list less, the arena has lost as many nodes
\* as the list was long, and no node names the list.
C14_RemoveListLive ==
    Called({"remove_list"}) =>
        /\ ret = TRUE
        /\ ~contains_list(Cur, call.list)
        /\ list_count(Cur) = list_count(pre) - 1
        /\ node_count(Cur) = node_count(pre) - len(pre, call.list)
        /\ OwnedBy(Cur, call.list) = {}

\* C14 witness: remove_list took a list of two or more nodes out of a set
\* whose last arena node belongs to another list.
C14_Witness ==
    /\ Called({"remove_list"})
    /\ len(pre, call.list) >= 2
    /\ pre.nodes[Len(pre.nodes)].list # call.list
    /\ ret = TRUE

\* C15: remove_list with a handle that is not in the set (one never issued,
\* one of a list already removed, or ListIndex::end()) returns false and
\* leaves the set as it was: the same lists, each with the length and the
\* payloads it had, and as many nodes.
C15_RemoveListUnknown ==
    CalledAny({"remove_list"}) /\ ListUnknown =>
        ret = FALSE /\ SetUnchanged

\* C15 witness: remove_list returned false for the handle of a list removed
\* before, the set holding another list with nodes.
C15_Witness ==
    /\ CalledAny({"remove_list"})
    /\ ListUnknown
    /\ \E i \in DOMAIN issued : issued[i] = call.list
    /\ node_count(pre) > 0
    /\ ret = FALSE

\* The sum of len(h) over the handles h of H.
RECURSIVE SumOfLen(_, _)
SumOfLen(s, H) ==
    IF H = {} THEN 0
    ELSE LET h == CHOOSE k \in H : TRUE
         IN len(s, h) + SumOfLen(s, H \ {h})

\* C16: in every reachable state node_count() is the sum of len(h) over the
\* lists h of the set.
C16_NodeCountIsSum == node_count(Cur) = SumOfLen(Cur, DOMAIN lists)

\* C17: is_empty() is true exactly when list_count() is 0: it is false when
\* the set has a list, even if every list is empty and node_count() is 0.
C17_IsEmptyCountsLists ==
    CalledAny({"is_empty"}) =>
        /\ ret = Value(list_count(pre) = 0)
        /\ DOMAIN pre.lists # {} => ret = Value(FALSE)
        /\ Cur = pre

\* C17 witness: is_empty returned false for a set of empty lists.
C17_Witness ==
    /\ CalledAny({"is_empty"})
    /\ list_count(pre) >= 1
    /\ node_count(pre) = 0
    /\ \A h \in DOMAIN pre.lists : list_is_empty(pre, h)
    /\ ret = Value(FALSE)

\* C18: after clear on a list of the set, the list is still in the set, its
\* len is 0, list_is_empty is true, iter yields nothing, contains is false
\* for every payload, and node_count() is less by the length the list had.
C18_ClearEmptiesList ==
    Called({"clear"}) =>
        /\ ~Panicked(call, ret)
        /\ contains_list(Cur, call.list)
        /\ len(Cur, call.list) = 0
        /\ list_is_empty(Cur, call.list)
        /\ iter(Cur, call.list) = <<>>
        /\ \A x \in Items : ~contains(Cur, call.list, x)
        /\ node_count(Cur) = node_count(pre) - len(pre, call.list)

\* C18 witness: clear emptied a list of two or more nodes while the last
\* arena node belonged to another list.
C18_Witness ==
    /\ Called({"clear"})
    /\ len(pre, call.list) >= 2
    /\ pre.nodes[Len(pre.nodes)].list # call.list
    /\ len(Cur, call.list) = 0

\* C19: after clear_all, is_empty() is true, list_count() and node_count()
\* are 0, and contains_list is false for every list the set had.
C19_ClearAllDeletesLists ==
    CalledAny({"clear_all"}) =>
        /\ is_empty(Cur)
        /\ list_count(Cur) = 0
        /\ node_count(Cur) = 0
        /\ \A h \in DOMAIN pre.lists : ~contains_list(Cur, h)

\* C19 witness: clear_all emptied a set of two lists, one of them with
\* nodes and one without.
C19_Witness ==
    /\ CalledAny({"clear_all"})
    /\ list_count(pre) >= 2
    /\ \E g, h \in DOMAIN pre.lists : len(pre, g) > 0 /\ len(pre, h) = 0
    /\ is_empty(Cur)

\* C20: contains(h, x) on a list of the set is true if and only if a payload
\* that iter(h) yields equals x; an equal payload in another list does not
\* make it true.
C20_ContainsOwnList ==
    Called({"contains"}) =>
        LET xs == iter(pre, call.list)
        IN /\ ret = Value(\E i \in DOMAIN xs : xs[i] = call.item)
           /\ Cur = pre

\* C20 witness: contains returned false for a payload that a list with
\* nodes does not hold and another list does.
C20_Witness ==
    /\ Called({"contains"})
    /\ len(pre, call.list) >= 1
    /\ \E g \in DOMAIN pre.lists \ {call.list} :
          \E i \in DOMAIN iter(pre, g) : iter(pre, g)[i] = call.item
    /\ ret = Value(FALSE)

\* The caller holds an iterator.
Iterating == cursor # NoIter

\* The items the iterator the caller holds has yielded so far.
Yielded == cursor.it.position_front + cursor.it.position_back

\* C21: for an iterator over a list of length n, under every interleaving
\* of next and next_back the two ends converge: every element is yielded at
\* most once, n items are yielded in all, and once n items are out both
\* next and next_back have nothing left.
C21_EndsConverge ==
    Iterating =>
        /\ \A p \in DOMAIN cursor.given : cursor.given[p] <= 1
        /\ Yielded <= LinkedList_len(cursor.it.list)
        /\ Yielded = LinkedList_len(cursor.it.list) =>
              /\ cursor.it.current_front = NodeIndex_end
              /\ cursor.it.current_back = NodeIndex_end

\* C22: after any mix of next and next_back, size_hint returns
\* (r, Some(r)) with r the length the list had when the iterator was made
\* minus the number of items the iterator has yielded.
C22_SizeHintExact ==
    Iterating /\ cursor.hint # None =>
        LET r == LinkedList_len(cursor.it.list) - Yielded
        IN cursor.hint = Some(<<r, Some(r)>>)

\* C23: while one ListIterMut lives, no arena node is handed out as a
\* mutable reference more than once.
C23_MutableOnce ==
    Iterating /\ cursor.kind = "iter_mut" =>
        \A p \in DOMAIN cursor.given : cursor.given[p] <= 1

\* C24: a pass of next_back alone over iter(h) or iter_mut(h) yields len(h)
\* payloads, each of a node of list h, in the reverse of the order in which
\* a pass of next alone yields them.
C24_BackwardPassReversed ==
    Iterating =>
        LET xs == iter(Cur, cursor.list)
            n == len(Cur, cursor.list)
            it == cursor.it
            forward == it.position_back = 0
            backward == it.position_front = 0
        IN /\ forward \/ backward =>
                /\ Yielded <= n
                /\ \A p \in DOMAIN cursor.given :
                      /\ cursor.given[p] <= 1
                      /\ cursor.given[p] = 1 =>
                            nodes[p + 1].list = cursor.list
           /\ forward /\ it.position_front > 0 =>
                IF cursor.last = None
                THEN Yielded = n /\ it.current_front = NodeIndex_end
                ELSE cursor.last = Some(xs[it.position_front])
           /\ backward /\ it.position_back > 0 =>
                IF cursor.last = None
                THEN Yielded = n /\ it.current_back = NodeIndex_end
                ELSE cursor.last = Some(xs[n + 1 - it.position_back])

\* C24 witness: a pass of next_back alone over a ListIterMut has come to
\* its end on a list of two or more different payloads whose front lies
\* behind its back in the arena, with a node of another list between them.
C24_Witness ==
    /\ Iterating
    /\ cursor.kind = "iter_mut"
    /\ cursor.it.position_front = 0
    /\ cursor.it.position_back = len(Cur, cursor.list)
    /\ cursor.last = None
    /\ len(Cur, cursor.list) >= 2
    /\ iter(Cur, cursor.list)[1] # iter(Cur, cursor.list)[2]
    /\ \E p \in DOMAIN cursor.given :
          /\ nodes[p + 1].list # cursor.list
          /\ lists[cursor.list].back < p
          /\ p < lists[cursor.list].front

\* The calls that add a node to a list or take one out of it.
NodeCalls ==
    {"push_back", "push_front", "pop_front", "pop_back", "remove",
     "remove_item"}

\* The call took a node out of the arena.
Removed ==
    /\ call.name \in {"pop_front", "pop_back", "remove", "remove_item"}
    /\ ret # None

\* The arena position, before the call, of the node the call took out.
RemovedPosition ==
    IF call.name = "pop_front" THEN pre.lists[call.list].front
    ELSE IF call.name = "pop_back" THEN pre.lists[call.list].back
    ELSE IF call.name = "remove" THEN PositionBefore(call.list, call.at)
    ELSE PositionBefore(call.list,
                        Least(PositionsOf(iter(pre, call.list), call.item)))

\* Where arena position p of before the call is after it: a removal moves
\* the last node into the slot of the removed one.
Relocated(p) ==
    IF Removed /\ p = LastBefore THEN RemovedPosition ELSE p

\* C25 as claimed: push_back, push_front, pop_front, pop_back, remove and
\* remove_item on a list leave the record of every other list as it was:
\* the same front, back and length.
C25_OtherRecordsUntouched ==
    Called(NodeCalls) =>
        \A B \in DOMAIN pre.lists \ {call.list} :
            /\ contains_list(Cur, B)
            /\ lists[B].front = pre.lists[B].front
            /\ lists[B].back = pre.lists[B].back
            /\ lists[B].length = pre.lists[B].length

\* C25 amended: those calls leave every other list its length, and its
\* front and back too, except that an end which was at the last arena
\* position before a removal is, after it, at the position the removed
\* node had.
C25_OtherRecordsRelocated ==
    Called(NodeCalls) =>
        \A B \in DOMAIN pre.lists \ {call.list} :
            /\ contains_list(Cur, B)
            /\ lists[B].front = Relocated(pre.lists[B].front)
            /\ lists[B].back = Relocated(pre.lists[B].back)
            /\ lists[B].length = pre.lists[B].length

\* C25 witness: a removal from one list moved the last arena node, the back
\* of another list of two or more nodes, and that list's back changed.
C25_Witness ==
    /\ Called(NodeCalls)
    /\ Removed
    /\ \E B \in DOMAIN pre.lists \ {call.list} :
          /\ pre.lists[B].back = LastBefore
          /\ pre.lists[B].length >= 2
          /\ lists[B].back # pre.lists[B].back
          /\ lists[B].front = pre.lists[B].front

\* C26: new_list called when the handle counter is at the largest value
\* panics, and the counter never wraps: no handle is issued twice.
C26_OverflowFatal ==
    /\ call.name = "new_list" /\ pre.alloc = UsizeMax =>
          Panicked(call, ret) /\ alloc = UsizeMax
    /\ \A i \in DOMAIN issued, j \in DOMAIN issued :
          i # j => issued[i] # issued[j]

\* C27: new_list never returns ListIndex::end(), and ListIndex::end() is
\* never a key of the list table.
C27_SentinelNeverIssued ==
    /\ \A i \in DOMAIN issued : issued[i] # ListIndex_end
    /\ ~contains_list(Cur, ListIndex_end)

\* C28: list_indices yields the handles of the lists of the set, each once:
\* list_count() handles in all, every one of them in the set.
C28_ListIndicesLive ==
    CalledAny({"list_indices"}) =>
        LET yielded == ret.value
        IN /\ Len(yielded) = list_count(pre)
           /\ {yielded[i] : i \in DOMAIN yielded} = DOMAIN pre.lists
           /\ \A i \in DOMAIN yielded, j \in DOMAIN yielded :
                 i # j => yielded[i] # yielded[j]
           /\ \A i \in DOMAIN yielded : contains_list(pre, yielded[i])
           /\ Cur = pre

\* C28 witness: list_indices yielded the one list left of the two that
\* were created.
C28_Witness ==
    /\ CalledAny({"list_indices"})
    /\ pre.alloc = 2
    /\ list_count(pre) = 1
    /\ Len(ret.value) = 1

\* C29: a new_list() that returns gives back the value the counter had, and
\* the handle then names an empty list (len 0, list_is_empty, no front, no
\* back); list_count() is one more than before, the arena is as before and
\* so is the record of every other list.
C29_NewListFresh ==
    (CalledAny({"new_list"}) /\ ret # Panic) =>
        /\ ret = Value(pre.alloc)
        /\ contains_list(Cur, ret.value)
        /\ len(Cur, ret.value) = 0
        /\ list_is_empty(Cur, ret.value)
        /\ front(Cur, ret.value) = None
        /\ back(Cur, ret.value) = None
        /\ list_count(Cur) = list_count(pre) + 1
        /\ nodes = pre.nodes
        /\ \A k \in DOMAIN pre.lists \ {ret.value} :
              k \in DOMAIN lists /\ lists[k] = pre.lists[k]
        /\ \A i \in 1..Len(issued) : issued[i] = i - 1

\* C29 witness: the second list was created while the first held a node.
C29_Witness ==
    /\ CalledAny({"new_list"})
    /\ ret = Value(1)
    /\ 0 \in DOMAIN pre.lists
    /\ len(pre, 0) = 1
    /\ list_count(Cur) = 2

\* The arena positions of list L met from its front by following next.
ChainForward(L) == walk_next(nodes, lists[L].front, Len(nodes) + 1)

\* The arena positions of list L met from its back by following previous.
ChainBackward(L) == walk_previous(nodes, lists[L].back, Len(nodes) + 1)

\* C30: chain integrity.  After any sequence of operations that returned,
\* for every list L of the set: the walk along next from the front of L
\* meets exactly length-of-L different arena positions, every node met
\* belongs to L, the last one met is the back of L, every arena node that
\* belongs to L is met, and the walk along previous from the back meets the
\* same positions in the reverse order.
C30_ChainIntegrity ==
    ~Panicked(call, ret) =>
        \A L \in DOMAIN lists :
            LET forward == ChainForward(L)
            IN /\ Len(forward) = lists[L].length
               /\ \A i \in DOMAIN forward, j \in DOMAIN forward :
                     i # j => forward[i] # forward[j]
               /\ \A i \in DOMAIN forward :
                     /\ forward[i] < Len(nodes)
                     /\ nodes[forward[i] + 1].list = L
               /\ forward # <<>> => forward[Len(forward)] = lists[L].back
               /\ {forward[i] + 1 : i \in DOMAIN forward} = OwnedBy(Cur, L)
               /\ ChainBackward(L) = Reversed(forward)

\* C30 witness: list 1 held the nodes at positions 1 and 2, the node of
\* list 0 at position 0 was popped, and the chain of list 1 now runs from
\* position 1 to position 0.
C30_Witness ==
    /\ CalledAny({"pop_front", "pop_back"})
    /\ ~Panicked(call, ret)
    /\ call.list = 0
    /\ Len(pre.nodes) = 3
    /\ 1 \in DOMAIN lists
    /\ ChainForward(1) = <<1, 0>>
    /\ ChainBackward(1) = <<0, 1>>

\* The arena positions in use.
ArenaPositions == 0..(Len(nodes) - 1)

\* C31: link symmetry.  In every state each previous and next of an arena
\* node is the sentinel or a position of the arena, and for all positions i
\* and j, node i has next = j exactly when node j has previous = i.
C31_LinkSymmetry ==
    /\ \A i \in ArenaPositions :
          /\ nodes[i + 1].next \in ArenaPositions \cup {NodeIndex_end}
          /\ nodes[i + 1].previous \in ArenaPositions \cup {NodeIndex_end}
    /\ \A i \in ArenaPositions :
          /\ nodes[i + 1].next # NodeIndex_end =>
                nodes[nodes[i + 1].next + 1].previous = i
          /\ nodes[i + 1].previous # NodeIndex_end =>
                nodes[nodes[i + 1].previous + 1].next = i

\* C31 witness: a removal out of the middle of the arena moved the last
\* node, which had a list neighbour, and the node now in the vacated slot
\* is linked to a neighbour.
C31_Witness ==
    /\ Called(NodeCalls)
    /\ Removed
    /\ RemovedPosition # LastBefore
    /\ \/ pre.nodes[LastBefore + 1].next # NodeIndex_end
       \/ pre.nodes[LastBefore + 1].previous # NodeIndex_end
    /\ \/ nodes[RemovedPosition + 1].next # NodeIndex_end
       \/ nodes[RemovedPosition + 1].previous # NodeIndex_end

\* C32: no orphan nodes.  After any sequence of calls that returned
\* (remove_list and clear_all among them), the list field of every arena
\* node is the handle of a list of the set.
C32_NoOrphanNodes ==
    ~Panicked(call, ret) =>
        \A i \in ArenaPositions : nodes[i + 1].list \in DOMAIN lists

\* C32 witness: remove_list deleted a list that held nodes, and nodes of
\* another list are left in the arena.
C32_Witness ==
    /\ Called({"remove_list"})
    /\ ret = TRUE
    /\ len(pre, call.list) >= 1
    /\ Len(nodes) >= 1

\* C33: record consistency.  In every state and for every list of the
\* set: front is the sentinel exactly when back is, and exactly when length
\* is 0; otherwise front and back are arena positions; so list_is_empty(h)
\* is true exactly when len(h) is 0.
C33_RecordConsistency ==
    \A L \in DOMAIN lists :
        /\ lists[L].front = NodeIndex_end <=> lists[L].back = NodeIndex_end
        /\ lists[L].back = NodeIndex_end <=> lists[L].length = 0
        /\ lists[L].length # 0 =>
              /\ lists[L].front \in ArenaPositions
              /\ lists[L].back \in ArenaPositions
        /\ list_is_empty(Cur, L) <=> len(Cur, L) = 0

\* C33 witness: a removal took the last node of a list while another list
\* kept nodes; the emptied list has no front, no back and length 0.
C33_Witness ==
    /\ Called(NodeCalls)
    /\ Removed
    /\ len(pre, call.list) = 1
    /\ list_is_empty(Cur, call.list)
    /\ len(Cur, call.list) = 0
    /\ Len(nodes) >= 1

\* The arena positions of before the call whose node has another previous or
\* next after it.
Relinked ==
    {q \in 0..(Len(pre.nodes) - 1) :
        \/ q >= Len(nodes)
        \/ nodes[q + 1].previous # pre.nodes[q + 1].previous
        \/ nodes[q + 1].next # pre.nodes[q + 1].next}

\* C34: push_back(h, x) and push_front(h, x) on a list of the set put the
\* new node at the arena position that was the arena length, make the arena
\* one longer, leave every node that was there at its position with its
\* payload and its list, and change the links of at most one of them: the
\* old back of h for push_back, the old front of h for push_front.
C34_PushArenaEffect ==
    Called({"push_back", "push_front"}) =>
        /\ Len(nodes) = Len(pre.nodes) + 1
        /\ nodes[Len(pre.nodes) + 1].item = call.item
        /\ nodes[Len(pre.nodes) + 1].list = call.list
        /\ \A q \in 0..(Len(pre.nodes) - 1) :
              /\ nodes[q + 1].item = pre.nodes[q + 1].item
              /\ nodes[q + 1].list = pre.nodes[q + 1].list
        /\ Cardinality(Relinked) <= 1
        /\ Relinked \subseteq
              {IF call.name = "push_back" THEN pre.lists[call.list].back
               ELSE pre.lists[call.list].front}

\* C34 witness: a push into a list that held nodes, with a node of another
\* list in the arena, changed the links of one old node.
C34_Witness ==
    /\ Called({"push_back", "push_front"})
    /\ len(pre, call.list) >= 1
    /\ \E q \in 0..(Len(pre.nodes) - 1) : pre.nodes[q + 1].list # call.list
    /\ Cardinality(Relinked) = 1

\* The payload a removal returned: remove and remove_item return it with
\* its position in the list.
ReturnedPayload ==
    IF call.name \in {"remove", "remove_item"} THEN ret.value[1]
    ELSE ret.value

\* C35: swap-remove arena effect.  pop_front, pop_back, remove or
\* remove_item taking the node at arena position p out of an arena of
\* length n leaves an arena of length n - 1; if p # n - 1, slot p holds the
\* payload and the list of the node that was at n - 1; every node that was
\* at a position other than p and n - 1 is at that position with its payload
\* and its list; the payload returned is the one that was stored at p.
C35_SwapRemoveArena ==
    (Called(NodeCalls) /\ Removed) =>
        LET p == RemovedPosition
            n == Len(pre.nodes)
        IN /\ Len(nodes) = n - 1
           /\ p # n - 1 =>
                 /\ nodes[p + 1].item = pre.nodes[n].item
                 /\ nodes[p + 1].list = pre.nodes[n].list
           /\ \A q \in 0..(n - 1) \ {p, n - 1} :
                 /\ nodes[q + 1].item = pre.nodes[q + 1].item
                 /\ nodes[q + 1].list = pre.nodes[q + 1].list
           /\ ReturnedPayload = pre.nodes[p + 1].item

\* C35 witness: the node removed was at the first of three arena positions,
\* and the node that was last, of another list and with another payload, is
\* in its slot.
C35_Witness ==
    /\ Called(NodeCalls)
    /\ Removed
    /\ RemovedPosition = 0
    /\ Len(pre.nodes) = 3
    /\ pre.nodes[3].list # call.list
    /\ pre.nodes[3].item # pre.nodes[1].item
    /\ nodes[1].item = pre.nodes[3].item
    /\ nodes[1].list = pre.nodes[3].list

\* The arena positions, before the call, of the list neighbours of the node
\* that was at position q.
NeighboursBefore(q) ==
    {pre.nodes[q + 1].previous, pre.nodes[q + 1].next} \ {NodeIndex_end}

\* The arena positions, before the call, of the surviving nodes whose
\* previous or next is another value after the call.
Patched ==
    {q \in (0..LastBefore) \ {RemovedPosition} :
        \/ nodes[Relocated(q) + 1].previous # pre.nodes[q + 1].previous
        \/ nodes[Relocated(q) + 1].next # pre.nodes[q + 1].next}

\* C36: bounded patching.  The removal of one node changes previous or next
\* of at most four surviving nodes, all among the two list neighbours of
\* the removed node and the two list neighbours of the node that was at the
\* last arena position; and when the removed node was at the last arena
\* position, no node and no record of another list changes.
C36_BoundedPatching ==
    (Called(NodeCalls) /\ Removed) =>
        /\ Cardinality(Patched) <= 4
        /\ Patched \subseteq
              NeighboursBefore(RemovedPosition) \cup NeighboursBefore(LastBefore)
        /\ RemovedPosition = LastBefore =>
              /\ \A q \in 0..(LastBefore - 1) :
                    pre.nodes[q + 1].list # call.list =>
                        nodes[q + 1] = pre.nodes[q + 1]
              /\ \A B \in DOMAIN pre.lists \ {call.list} :
                    B \in DOMAIN lists /\ lists[B] = pre.lists[B]

\* C36 witness: a removal changed the links of four surviving nodes, with
\* a fifth surviving node in the arena.
C36_Witness ==
    /\ Called(NodeCalls)
    /\ Removed
    /\ Cardinality(Patched) = 4
    /\ Len(nodes) >= 5

\* The call took a node out of a slot other than the last: the node that
\* was last is in that slot after the call.
Relocating == Called(NodeCalls) /\ Removed /\ RemovedPosition # LastBefore

\* C37 as claimed: a node that a removal relocates has after the call the
\* item, list, previous and next it had before the call, whichever node was
\* removed.
C37_RelocationKeepsFields ==
    Relocating =>
        LET moved == pre.nodes[LastBefore + 1]
            now == nodes[RemovedPosition + 1]
        IN /\ now.item = moved.item
           /\ now.list = moved.list
           /\ now.previous = moved.previous
           /\ now.next = moved.next

\* C37 amended: a node that a removal relocates keeps its item and its list;
\* it keeps its previous unless that was the removed node, and then it has
\* the previous the removed node had; it keeps its next unless that was the
\* removed node, and then it has the next the removed node had.
C37_RelocationKeepsPayload ==
    Relocating =>
        LET moved == pre.nodes[LastBefore + 1]
            removed == pre.nodes[RemovedPosition + 1]
            now == nodes[RemovedPosition + 1]
        IN /\ now.item = moved.item
           /\ now.list = moved.list
           /\ now.previous = IF moved.previous = RemovedPosition
                             THEN removed.previous ELSE moved.previous
           /\ now.next = IF moved.next = RemovedPosition
                         THEN removed.next ELSE moved.next

\* C37 witness: the relocated node was the list neighbour of the removed
\* node, which had a neighbour on its other side, and the relocated node is
\* now linked to that one.
C37_Witness ==
    /\ Relocating
    /\ pre.nodes[LastBefore + 1].next = RemovedPosition
    /\ pre.nodes[RemovedPosition + 1].next # NodeIndex_end
    /\ nodes[RemovedPosition + 1].next = pre.nodes[RemovedPosition + 1].next

\* What the pop_front calls of the clear(h) of this call returned.
ClearPops == clear_pops(pre, call.list, Len(pre.nodes) + 1)

\* C38: clear(h) on a list of the set ends after exactly len(h) calls of
\* pop_front, each of which removes a node; in every state the test of its
\* loop (list_is_empty: front and back) is true exactly when pop_front,
\* which removes a node unless front is the sentinel, has nothing to remove.  remove_list(h), which calls
\* clear(h), ends likewise.
C38_ClearTerminates ==
    /\ \A L \in DOMAIN lists :
          list_is_empty(Cur, L) <=>
              get_list_unchecked(Cur, L).front = NodeIndex_end
    /\ Called({"clear", "remove_list"}) =>
          /\ Len(ClearPops) = len(pre, call.list)
          /\ \A i \in DOMAIN ClearPops :
                ClearPops[i] # None /\ ClearPops[i] # Unfinished
          /\ ~Panicked(call, ret)

\* C38 witness: clear ended after two calls of pop_front, the first of
\* which moved a node of another list.
C38_Witness ==
    /\ Called({"clear"})
    /\ Len(ClearPops) = 2
    /\ pre.lists[call.list].front # LastBefore
    /\ pre.nodes[LastBefore + 1].list # call.list
    /\ list_is_empty(Cur, call.list)

\* C39: push_back(h, x) and push_front(h, x) with a handle that is not in
\* the set panic and leave the set as it was: node_count() is what it was,
\* and the arena holds no node of the unknown handle.
C39_PushUnknownUnchanged ==
    (CalledAny({"push_back", "push_front"}) /\ ListUnknown) =>
        /\ ret = Panic
        /\ node_count(Cur) = node_count(pre)
        /\ OwnedBy(Cur, call.list) = {}
        /\ Cur = pre

\* C40: the bounds check ListIterMut::next and next_back make before they
\* dereference accepts a position only if it is less than the arena length:
\* it rejects every position at or past the arena length, the position equal
\* to the arena length among them.
C40_BoundedByStrict ==
    call.name = "bounded_by" =>
        /\ ret.value => call.count < call.length
        /\ call.count >= call.length => ~ret.value

====
